---- MODULE Spec2Model ----
(***************************************************************************)
(* A model of the feature-extraction pipeline of the parliament language   *)
(* processing program: the aggregation store (main.py, save_information    *)
(* and feature_extraction), the per-year sampling                          *)
(* (visualization_and_analysis.py, sample_speeches), the optional sampling *)
(* step of the metric extractors (complexity_analysis.py,                  *)
(* feature_analysis.py) and the annotation of the collection               *)
(* (complexity_analysis.py, preprocess_and_store_tokens).                  *)
(***************************************************************************)
EXTENDS Integers, Sequences, FiniteSets, TLC

(***************************************************************************)
(* Bounds of the model.                                                    *)
(***************************************************************************)
\* save_information calls in one behaviour of SpecStore / SpecWriters
MaxCalls == 3
\* rows of the collection (DataFrame)
MaxRows == 3
\* largest per-year cap passed to the sampling
MaxCap == 2
\* draws of the global random generator in one behaviour
MaxDraws == 2
\* persist failures injected into one run of feature_extraction
MaxFaults == 2

\* Python's None (also stands for NaN in a DataFrame cell)
None == "None"

\* the contents of a numeric array handed to save_information (abstract)
Data == {"a1", "a2"}

\* feature names handed to save_information; "A_year" is "A" followed by
\* the suffix the store appends for the years entry
FeatureNames == {"A", "B", "A_year"}

VARIABLES
    file,             \* the persisted container language_metrics.npz
    calls,            \* number of save_information calls started so far
    prev,             \* history: the container before the last finished call
    last,             \* history: the last finished call and how it ended
    alt,              \* history: the container had the last two calls run in the other order
    latest,           \* history: feature -> pair of its latest successful call
    allStored,        \* history: every finished call so far was successful
    wpc,              \* SpecWriters: writer -> "idle" | "loaded"
    wloc,             \* SpecWriters: writer -> the locals of its call (data_dict, arguments)
    overlap,          \* SpecWriters: some call was started while another was between load and persist
    runpc,            \* SpecRun: index of the next metric feature_extraction saves
    faults,           \* SpecRun: persist failures so far in the run
    persisted,        \* SpecRun: metric -> pair persisted by a successful call of this run
    combined_df,      \* the collection: the rows loading_data returned, in index order
    loaded,           \* loading_data has returned
    rng,              \* the state of the global generator of the random module (draws made)
    lastOp,           \* history: the last sampling or extractor call, its cap, input and collection used
    samples,          \* history: the sample_speeches invocations on the collection, by cap and result
    apc,              \* preprocess_and_store_tokens: "idle" | "loop" | "done" | "assert_failed"
    apos,             \* preprocess_and_store_tokens: the row of the next iteration
    processed_texts,  \* preprocess_and_store_tokens: the list built so far
    engineLog,        \* history: every invocation of the engine nlp, with its row and outcome
    result            \* the outcome of the last metric extractor call: what it returned, or that it raised

storeVars == <<file, calls, prev, last, alt, latest, allStored>>
writerVars == <<wpc, wloc, overlap>>
runVars == <<runpc, faults, persisted>>
dfVars == <<combined_df, loaded>>
sampleVars == <<rng, lastOp, samples>>
annotVars == <<apc, apos, processed_texts, engineLog>>
metricVars == <<result>>
vars == <<storeVars, writerVars, runVars, dfVars, sampleVars, annotVars, metricVars>>

(***************************************************************************)
(* The aggregation store: main.py, save_information.                       *)
(*                                                                         *)
(* The container is a zip archive of named arrays.  It is absent, present  *)
(* and loadable ("ok", with its entries in archive order), or present and  *)
(* not loadable ("corrupt").  Each entry carries, as history, the number   *)
(* of the call that wrote it.                                              *)
(***************************************************************************)
Absent == [state |-> "absent", entries |-> <<>>]
Corrupt == [state |-> "corrupt", entries |-> <<>>]
Loadable(d) == [state |-> "ok", entries |-> d]
\* history: no container to compare with
NoStore == [state |-> "none", entries |-> <<>>]

NoCall == [feature |-> None, values |-> None, years |-> None, call |-> 0,
           status |-> None]

\* f"{feature_name}_year"
YearKey(feature_name) == feature_name \o "_year"

Keys(d) == {d[i].key : i \in DOMAIN d}

\* the mapping key -> array of a dict / of the loadable container
Lookup(d, k) == d[CHOOSE i \in DOMAIN d : d[i].key = k]
Contents(d) == [k \in Keys(d) |-> Lookup(d, k).data]

\* a load whose FileNotFoundError is not told from the other exceptions
np_load_uncaught(f) ==
    IF f.state = "ok" THEN [exc |-> None, dict |-> f.entries]
    ELSE [exc |-> "Exception", dict |-> <<>>]

\* np.load(file_name, allow_pickle=True); dict(existing_data): the exception
\* raised, if any, and the dict
np_load(f) ==
    CASE f.state = "absent"  -> [exc |-> "FileNotFoundError", dict |-> <<>>]
      [] f.state = "corrupt" -> [exc |-> "Exception", dict |-> <<>>]
      [] OTHER               -> [exc |-> None, dict |-> f.entries]

\* data_dict[key] = value: an existing key keeps its place, a new key is added last
SetItem(d, k, v, c) ==
    LET e == [key |-> k, data |-> v, call |-> c]
    IN  IF k \in Keys(d)
        THEN [i \in DOMAIN d |-> IF d[i].key = k THEN e ELSE d[i]]
        ELSE Append(d, e)

\* data_dict[feature_name] = values; data_dict[f"{feature_name}_year"] = years
UpdateDict(d, feature_name, values, years, c) ==
    SetItem(SetItem(d, feature_name, values, c), YearKey(feature_name), years, c)

\* The ways np.savez(file_name, **data_dict) can end.  It opens the archive
\* for writing in place (which empties it) and writes the arrays one by one
\* in dict order: it succeeds, fails before the archive is opened, or fails
\* while writing, leaving an archive of the k entries written so far or an
\* archive that cannot be loaded.
SavezOutcomes(d) ==
    {[kind |-> "ok", k |-> Len(d), closed |-> TRUE],
     [kind |-> "fail_open", k |-> 0, closed |-> TRUE]}
    \cup {[kind |-> "fail_write", k |-> k, closed |-> cl] :
              k \in 0..(Len(d) - 1), cl \in BOOLEAN}

np_savez(f, d, outcome) ==
    CASE outcome.kind = "ok"        -> Loadable(d)
      [] outcome.kind = "fail_open" -> f
      [] OTHER -> IF outcome.closed THEN Loadable(SubSeq(d, 1, outcome.k))
                                    ELSE Corrupt

\* the inner try: the dict the call starts from; only FileNotFoundError is
\* caught there
LoadedDict(f) == np_load(f).dict
LoadRaises(f) == np_load(f).exc = "Exception"

\* the dict the call persists
NewDict(f, feature_name, values, years, c) ==
    UpdateDict(LoadedDict(f), feature_name, values, years, c)

\* a call whose inner except catches every exception of the load: the dict
\* starts empty whenever the container cannot be loaded
save_information_from_empty(f, feature_name, values, years, c, outcome) ==
    [file |-> np_savez(f, UpdateDict(IF LoadRaises(f) THEN <<>> ELSE LoadedDict(f),
                                     feature_name, values, years, c), outcome),
     status |-> IF outcome.kind = "ok" THEN "stored" ELSE "persist_failed"]

\* save_information(file_name, feature_name, values, years): the container
\* afterwards and how the call ended; every exception is caught by the outer
\* except and printed
save_information(f, feature_name, values, years, c, outcome) ==
    IF LoadRaises(f)
    THEN [file |-> f, status |-> "load_failed"]
    ELSE [file |-> np_savez(f, NewDict(f, feature_name, values, years, c), outcome),
          status |-> IF outcome.kind = "ok" THEN "stored" ELSE "persist_failed"]

\* the container after a successful call
Stored(f, feature_name, values, years, c) ==
    Loadable(NewDict(f, feature_name, values, years, c))

Pair(values, years, c) == [values |-> values, years |-> years, call |-> c]

(***************************************************************************)
(* The collection (DataFrame) and its cells.                               *)
(***************************************************************************)
\* a missing value (NaN) in the year column
NaN == 0 - 1
\* the years of the rows
YearValues == {1980, 1981}

\* a cell of the content column: a string (its characters) or not a string
Str(chars) == [str |-> TRUE, text |-> chars]
NotStr == [str |-> FALSE, text |-> <<>>]
ContentValues == {NotStr, Str(<<>>), Str(<<" ">>), Str(<<"a">>), Str(<<" ", "a", " ">>)}

\* the rows of the collections with n rows; a row's id is its index
RowsOf(n, years, contents) ==
    {[i \in 1..n |-> [id |-> i, year |-> ys[i], content |-> cs[i]]] :
        ys \in [1..n -> years], cs \in [1..n -> contents]}

Collections(years, contents) ==
    UNION {RowsOf(n, years, contents) : n \in 0..MaxRows}

\* no cap: sample_size_per_year = None
NoCap == 0 - 1
Caps == {NoCap} \cup (0..MaxCap)

NoOp == [op |-> "none", cap |-> NoCap, input |-> <<>>, used |-> <<>>,
         sampled |-> FALSE, again |-> FALSE]

\* no extractor call yet
NoResult == [op |-> "none", arg |-> {}, status |-> "none", values |-> <<>>,
             years |-> <<>>, units |-> <<>>]

Init ==
    /\ file = Absent
    /\ calls = 0
    /\ prev = Absent
    /\ last = NoCall
    /\ alt = NoStore
    /\ latest = <<>>
    /\ allStored = TRUE
    /\ wpc = [w \in {1, 2} |-> "idle"]
    /\ wloc = [w \in {1, 2} |-> NoCall]
    /\ overlap = FALSE
    /\ runpc = 1
    /\ faults = 0
    /\ persisted = <<>>
    /\ combined_df = <<>>
    /\ loaded = FALSE
    /\ rng = 0
    /\ lastOp = NoOp
    /\ samples = {}
    /\ apc = "idle"
    /\ apos = 1
    /\ processed_texts = <<>>
    /\ engineLog = <<>>
    /\ result = NoResult

\* latest with the pair of a successful call recorded
Record(m, feature_name, values, years, c) ==
    [k \in DOMAIN m \cup {feature_name} |->
        IF k = feature_name THEN Pair(values, years, c) ELSE m[k]]

\* One serialized call of save_information: load, update and persist in one step.
SaveInformation ==
    /\ calls < MaxCalls
    /\ \E feature_name \in FeatureNames, values \in Data, years \in Data :
       \E outcome \in SavezOutcomes(NewDict(file, feature_name, values, years, calls + 1)) :
          LET c == calls + 1
              r == save_information(file, feature_name, values, years, c, outcome)
          IN  /\ file' = r.file
              /\ calls' = c
              /\ prev' = file
              /\ last' = [feature |-> feature_name, values |-> values,
                          years |-> years, call |-> c, status |-> r.status]
              /\ alt' = IF /\ r.status = "stored"
                           /\ last.status = "stored"
                           /\ last.feature # feature_name
                        THEN Stored(Stored(prev, feature_name, values, years, c),
                                    last.feature, last.values, last.years, last.call)
                        ELSE NoStore
              /\ latest' = IF r.status = "stored"
                           THEN Record(latest, feature_name, values, years, c)
                           ELSE latest
              /\ allStored' = (allStored /\ r.status = "stored")
    /\ UNCHANGED <<writerVars, runVars, dfVars, sampleVars, annotVars, metricVars>>

NextStore == SaveInformation

SpecStore == Init /\ [][NextStore]_vars

(***************************************************************************)
(* Two writers whose calls of save_information may interleave between the  *)
(* load (main.py 131-135) and the persist (main.py 142).                   *)
(***************************************************************************)
Writers == {1, 2}

\* lines 129-139 of one call: load the container and update the dict
BeginCall(w) ==
    /\ wpc[w] = "idle"
    /\ calls < MaxCalls
    /\ \E feature_name \in FeatureNames, values \in Data, years \in Data :
          LET c == calls + 1
              me == [feature |-> feature_name, values |-> values,
                     years |-> years, call |-> c]
          IN  /\ calls' = c
              /\ IF LoadRaises(file)
                 THEN /\ last' = me @@ [status |-> "load_failed"]
                      /\ allStored' = FALSE
                      /\ UNCHANGED <<wpc, wloc, overlap>>
                 ELSE /\ wpc' = [wpc EXCEPT ![w] = "loaded"]
                      /\ wloc' = [wloc EXCEPT ![w] =
                             me @@ [status |-> None,
                                    dict |-> NewDict(file, feature_name, values, years, c)]]
                      /\ overlap' = (overlap \/ \E o \in Writers \ {w} : wpc[o] = "loaded")
                      /\ UNCHANGED <<last, allStored>>
    /\ UNCHANGED <<file, prev, alt, latest, runVars, dfVars, sampleVars, annotVars, metricVars>>

\* line 142 of one call: persist the dict the call holds
Persist(w) ==
    /\ wpc[w] = "loaded"
    /\ \E outcome \in SavezOutcomes(wloc[w].dict) :
          LET me == wloc[w]
              status == IF outcome.kind = "ok" THEN "stored" ELSE "persist_failed"
          IN  /\ file' = np_savez(file, me.dict, outcome)
              /\ prev' = file
              /\ last' = [feature |-> me.feature, values |-> me.values,
                          years |-> me.years, call |-> me.call, status |-> status]
              /\ latest' = IF status = "stored"
                           THEN Record(latest, me.feature, me.values, me.years, me.call)
                           ELSE latest
              /\ allStored' = (allStored /\ status = "stored")
    /\ wpc' = [wpc EXCEPT ![w] = "idle"]
    /\ wloc' = [wloc EXCEPT ![w] = NoCall]
    /\ UNCHANGED <<calls, alt, overlap, runVars, dfVars, sampleVars, annotVars, metricVars>>

NextWriters == \E w \in Writers : BeginCall(w) \/ Persist(w)

SpecWriters == Init /\ [][NextWriters]_vars

(***************************************************************************)
(* feature_extraction (main.py 147-211): one save_information call per     *)
(* metric, in this order, into language_metrics.npz; the arrays are the    *)
(* extractor's results.                                                    *)
(***************************************************************************)
Metrics == <<"speech_length", "word_length", "root_dependencies",
             "root_dependencies_divided", "VERB", "NOUN", "PRON",
             "CCONJ SCONJ", "TTR", "compound_words", "noun_compound_words",
             "length_ratios">>

\* one metric of feature_extraction: values, years = <extractor>(...);
\* save_information(file_name, <metric>, values, years).  The call returns
\* normally however it ended, so the run goes on to the next metric.
SaveMetric ==
    /\ runpc <= Len(Metrics)
    /\ \E outcome \in SavezOutcomes(NewDict(file, Metrics[runpc], "a1", "a2", runpc)) :
          LET r == save_information(file, Metrics[runpc], "a1", "a2", runpc, outcome)
          IN  /\ r.status = "persist_failed" => faults < MaxFaults
              /\ faults' = IF r.status = "persist_failed" THEN faults + 1 ELSE faults
              /\ file' = r.file
              /\ prev' = file
              /\ last' = [feature |-> Metrics[runpc], values |-> "a1",
                          years |-> "a2", call |-> runpc, status |-> r.status]
              /\ persisted' = IF r.status = "stored"
                              THEN Record(persisted, Metrics[runpc], "a1", "a2", runpc)
                              ELSE persisted
    /\ runpc' = runpc + 1
    /\ UNCHANGED <<calls, alt, latest, allStored, writerVars, dfVars, sampleVars, annotVars, metricVars>>

NextRun == SaveMetric

SpecRun == Init /\ [][NextRun]_vars

(***************************************************************************)
(* Claims about the aggregation store.                                     *)
(***************************************************************************)
\* the entry of key k holds the array `data`
Holds(f, k, data) ==
    /\ f.state = "ok"
    /\ k \in Keys(f.entries)
    /\ Lookup(f.entries, k).data = data

\* C1: a successful save_information call for feature B leaves every entry
\* stored before it for any other feature name A (the entries A and A_year)
\* present and unchanged, whatever the two names are.
C1_OtherFeaturesKept ==
    last.status = "stored" =>
        \A A \in FeatureNames \ {last.feature} :
            \A k \in {A, YearKey(A)} :
                k \in Keys(prev.entries) =>
                    Holds(file, k, Lookup(prev.entries, k).data)

\* C2: in every state of the store, the two entries of a feature some call
\* was made for are both absent, or both present and written by one call.
C2_PairFromOneCall ==
    \A F \in (DOMAIN latest \cup {last.feature}) \ {None} :
        LET ks == Keys(file.entries)
        IN  /\ (F \in ks) <=> (YearKey(F) \in ks)
            /\ F \in ks =>
                  Lookup(file.entries, F).call = Lookup(file.entries, YearKey(F)).call

\* C3: two successful serialized calls for features with different names
\* leave the same store contents in either order.
C3_OrderIrrelevant ==
    alt # NoStore => Contents(alt.entries) = Contents(file.entries)

\* C4 (serialized part): while no two calls overlapped and every call was
\* successful, the store holds for every feature written the pair of its
\* latest call.
C4_SerializedKeepsLatest ==
    (~overlap /\ allStored) =>
        \A F \in DOMAIN latest :
            /\ Holds(file, F, latest[F].values)
            /\ Holds(file, YearKey(F), latest[F].years)

\* C4 (interleaved part): two calls for different features overlapped, both
\* were successful, both are finished, and the pair one of them wrote is
\* missing from the store.
C4_LostUpdate ==
    /\ overlap /\ allStored /\ calls = 2
    /\ \A w \in Writers : wpc[w] = "idle"
    /\ Cardinality(DOMAIN latest) = 2
    /\ \E F \in DOMAIN latest : F \notin Keys(file.entries)

\* C5: in a run of feature_extraction, whatever calls failed, every pair
\* persisted by a successful call of the run is still in the store as that
\* call wrote it.
C5_EarlierPairsKept ==
    \A m \in DOMAIN persisted :
        /\ Holds(file, m, persisted[m].values)
        /\ Holds(file, YearKey(m), persisted[m].years)
        /\ Lookup(file.entries, m).call = persisted[m].call

\* C6: a call that finds no container does not fail to load, and if its
\* persist succeeds the store holds exactly the two entries of that call.
C6_AbsentStartsEmpty ==
    prev = Absent /\ last # NoCall =>
        /\ last.status # "load_failed"
        /\ last.status = "stored" =>
              /\ file.state = "ok"
              /\ Keys(file.entries) = {last.feature, YearKey(last.feature)}
              /\ Holds(file, last.feature, last.values)
              /\ Holds(file, YearKey(last.feature), last.years)

C6_Witness ==
    /\ prev = Absent
    /\ last.status = "stored"
    /\ Cardinality(Keys(file.entries)) = 2

(***************************************************************************)
(* loading_data (main.py 50-94) returns the collection.  Its rows are an   *)
(* input of the model.                                                     *)
(***************************************************************************)
LoadingData(years, contents) ==
    /\ ~loaded
    /\ combined_df' \in Collections(years, contents)
    /\ loaded' = TRUE
    /\ UNCHANGED <<storeVars, writerVars, runVars, sampleVars, annotVars, metricVars>>

(***************************************************************************)
(* The sampling: visualization_and_analysis.py, sample_speeches.           *)
(***************************************************************************)
\* numpy.random.RandomState(42).permutation(n) for n = 1..5 (positions from
\* 0): the order in which DataFrame.sample(n=..., random_state=42) takes the
\* rows of a group of n rows
Perm42 == <<
    <<0>>,
    <<1, 0>>,
    <<0, 1, 2>>,
    <<1, 3, 0, 2>>,
    <<1, 4, 2, 0, 3>> >>

\* a sampling that drew from the global generator instead of a generator
\* seeded anew with 42
GlobalPositions(n) == [i \in 1..n |-> (Perm42[n][i] + rng) % n]

\* random_state=42: the positions drawn for a group of n rows
SeededPositions(n) == Perm42[n]

\* a group sample that ignores the cap
WholeGroup(sample_size, n) == n

\* n=min(sample_size, len(all_speeches_of_a_year))
SampleSize(sample_size, n) == IF sample_size < n THEN sample_size ELSE n

\* combined_df.dropna(subset=["year"])
DropNaYear(df) == SelectSeq(df, LAMBDA r : r.year # NaN)

\* all_speeches_of_a_year.sample(n=..., random_state=42)
SampleGroup(g, sample_size) ==
    [i \in 1..SampleSize(sample_size, Len(g)) |-> g[SeededPositions(Len(g))[i] + 1]]

\* groupby("year").apply(...): the groups in ascending order of the year,
\* each sampled, one after the other
RECURSIVE SampleGroups(_, _, _)
SampleGroups(df, ys, sample_size) ==
    IF ys = {} THEN <<>>
    ELSE LET y == CHOOSE m \in ys : \A o \in ys : m <= o
         IN  SampleGroup(SelectSeq(df, LAMBDA r : r.year = y), sample_size)
             \o SampleGroups(df, ys \ {y}, sample_size)

YearsOf(df) == {df[i].year : i \in DOMAIN df}

\* sample_speeches(combined_df, sample_size)
sample_speeches(df, sample_size) ==
    LET kept == DropNaYear(df)
    IN  SampleGroups(kept, YearsOf(kept), sample_size)

\* history: this invocation repeats one made with the same cap before the
\* global generator had made any draw, and draws were made since
Again(k) == rng > 0 /\ \E s \in samples : s.k = k /\ ~s.drawn

\* history: the invocations of sample_speeches on the collection, each cap and
\* result once, with whether the global generator had made a draw by then
Remember(seen, k, out) ==
    IF \E s \in seen : s.k = k /\ s.out = out THEN seen
    ELSE seen \cup {[k |-> k, out |-> out, drawn |-> rng > 0]}

\* a direct call of sample_speeches with a positive cap
SampleSpeeches ==
    /\ loaded
    /\ \E k \in 1..MaxCap :
         LET out == sample_speeches(combined_df, k)
         IN  /\ lastOp' = [op |-> "sample_speeches", cap |-> k,
                           input |-> combined_df, used |-> out, sampled |-> TRUE,
                           again |-> Again(k)]
             /\ samples' = Remember(samples, k, out)
    /\ UNCHANGED <<storeVars, writerVars, runVars, dfVars, rng, annotVars, metricVars>>

(***************************************************************************)
(* The optional sampling step of the metric extractors: the collection     *)
(* each extractor works on, and whether it called sample_speeches.         *)
(***************************************************************************)
\* the truth value Python gives a cap in `if sample_size_per_year:`
Truthy(cap) == cap # NoCap /\ cap # 0

Sampled(df, cap) == [rows |-> sample_speeches(df, cap), sampled |-> TRUE]
Whole(df) == [rows |-> df, sampled |-> FALSE]

\* an extractor that applies a default cap of 1 when none is given
DefaultCapCollection(df, cap) ==
    IF cap = NoCap THEN Sampled(df, 1)
    ELSE IF cap # 0 THEN Sampled(df, cap) ELSE Whole(df)

root_dependencies_collection(df, cap) ==
    IF Truthy(cap) THEN Sampled(df, cap) ELSE Whole(df)

root_dependencies_divided_collection(df, cap) ==
    IF Truthy(cap) THEN Sampled(df, cap) ELSE Whole(df)

part_of_speech_analysis_collection(df, cap) ==
    IF Truthy(cap) THEN Sampled(df, cap) ELSE Whole(df)

\* ttr_analysis takes no cap and never samples speeches
ttr_analysis_collection(df, cap) == Whole(df)

compound_word_analysis_collection(df, cap) ==
    IF Truthy(cap) THEN Sampled(df, cap) ELSE Whole(df)

noun_compound_analysis_collection(df, cap) ==
    IF Truthy(cap) THEN Sampled(df, cap) ELSE Whole(df)

word_vs_lemmatized_word_analysis_collection(df, cap) ==
    IF Truthy(cap) THEN Sampled(df, cap) ELSE Whole(df)

analyze_feature_over_years_collection(df, cap) ==
    IF Truthy(cap) THEN Sampled(df, cap) ELSE Whole(df)

Extractors == {"root_dependencies",
               "root_dependencies_divided_by_sentence_word_count",
               "part_of_speech_analysis", "ttr_analysis",
               "compound_word_analysis", "noun_compound_analysis",
               "word_vs_lemmatized_word_analysis",
               "analyze_feature_over_years"}

CollectionOf(op, df, cap) ==
    CASE op = "root_dependencies" -> root_dependencies_collection(df, cap)
      [] op = "root_dependencies_divided_by_sentence_word_count" ->
             root_dependencies_divided_collection(df, cap)
      [] op = "part_of_speech_analysis" -> part_of_speech_analysis_collection(df, cap)
      [] op = "ttr_analysis" -> ttr_analysis_collection(df, cap)
      [] op = "compound_word_analysis" -> compound_word_analysis_collection(df, cap)
      [] op = "noun_compound_analysis" -> noun_compound_analysis_collection(df, cap)
      [] op = "word_vs_lemmatized_word_analysis" ->
             word_vs_lemmatized_word_analysis_collection(df, cap)
      [] OTHER -> analyze_feature_over_years_collection(df, cap)

\* A call of an extractor with a cap (none, 0 or positive); ttr_analysis is
\* always called without one.  ttr_analysis draws its window starts from the
\* global generator (calculate_ttr, random.randint): as many draws as the
\* text of the years allows.
Extract(op) ==
    /\ loaded
    /\ \E cap \in (IF op = "ttr_analysis" THEN {NoCap} ELSE Caps) :
         LET c == CollectionOf(op, combined_df, cap)
         IN  /\ lastOp' = [op |-> op, cap |-> cap, input |-> combined_df,
                           used |-> c.rows, sampled |-> c.sampled,
                           again |-> FALSE]
    /\ IF op = "ttr_analysis"
       THEN \E draws \in 0..(MaxDraws - rng) : rng' = rng + draws
       ELSE rng' = rng
    /\ UNCHANGED <<storeVars, writerVars, runVars, dfVars, samples, annotVars, metricVars>>

\* sample_speeches called again and again on the collection, with runs of
\* ttr_analysis (draws of the global generator) between the calls
NextSample ==
    \/ LoadingData(YearValues \cup {NaN}, {Str(<<"a">>)})
    \/ SampleSpeeches
    \/ Extract("ttr_analysis")

SpecSample == Init /\ [][NextSample]_vars

\* the extractors called one after the other on the collection
NextExtract ==
    \/ LoadingData(YearValues \cup {NaN}, {Str(<<"a">>)})
    \/ \E op \in Extractors : Extract(op)

SpecExtract == Init /\ [][NextExtract]_vars

(***************************************************************************)
(* Claims about the sampling.                                              *)
(***************************************************************************)
Ids(rows) == {rows[i].id : i \in DOMAIN rows}
RowSet(rows) == {rows[i] : i \in DOMAIN rows}
CountYear(rows, y) == Cardinality({i \in DOMAIN rows : rows[i].year = y})

\* C7: sample_speeches with a positive cap k returns only rows of its input,
\* none with a missing year, and for every year of the input exactly
\* min(k, rows of that year) different rows of that year.
C7_CapPerYear ==
    lastOp.op = "sample_speeches" =>
        LET in == lastOp.input
            out == lastOp.used
            k == lastOp.cap
        IN  /\ RowSet(out) \subseteq RowSet(in)
            /\ \A i \in DOMAIN out : out[i].year # NaN
            /\ Cardinality(Ids(out)) = Len(out)
            /\ \A y \in YearsOf(in) \ {NaN} :
                 /\ CountYear(out, y) = (IF k < CountYear(in, y) THEN k
                                         ELSE CountYear(in, y))
                 /\ CountYear(out, y) <= k

\* the cap cut a year short, another year was below the cap, and a row had no year
C7_Witness ==
    /\ lastOp.op = "sample_speeches"
    /\ \E y \in YearsOf(lastOp.input) \ {NaN} : CountYear(lastOp.input, y) > lastOp.cap
    /\ \E i \in DOMAIN lastOp.input : lastOp.input[i].year = NaN
    /\ lastOp.used # <<>>

C9_NoCapNoSampling ==
    /\ (lastOp.op \in Extractors /\ lastOp.cap = NoCap) =>
            /\ ~lastOp.sampled
            /\ lastOp.used = lastOp.input
    /\ \A op \in Extractors :
            CollectionOf(op, combined_df, NoCap) = Whole(combined_df)

\* an extractor was called without a cap on a collection that a cap of 1
\* would have cut
C9_Witness ==
    /\ lastOp.op \in Extractors \ {"ttr_analysis"}
    /\ lastOp.cap = NoCap
    /\ \E y \in YearValues : CountYear(lastOp.input, y) > 1
    /\ Len(sample_speeches(lastOp.input, 1)) < Len(lastOp.used)

(***************************************************************************)
(* The annotation of the collection: complexity_analysis.py,               *)
(* preprocess_and_store_tokens.  The engine nlp is external: for a text it *)
(* returns a document or raises.                                           *)
(***************************************************************************)
\* the result None
NoDoc == [kind |-> "none", n |-> 0]
\* the documents the engine may return
Docs == {[kind |-> "doc", n |-> 1], [kind |-> "doc", n |-> 2]}
Raises == [kind |-> "raise", n |-> 0]

IsSpace(ch) == ch = " "

\* a strip that leaves the text as it is
StripNothing(chars) == chars

\* str.strip(): the text without its leading and trailing whitespace
RECURSIVE Strip(_)
Strip(chars) ==
    IF chars = <<>> THEN <<>>
    ELSE IF IsSpace(Head(chars)) THEN Strip(Tail(chars))
    ELSE IF IsSpace(chars[Len(chars)]) THEN Strip(SubSeq(chars, 1, Len(chars) - 1))
    ELSE chars

\* not isinstance(text, str) or not text.strip()
SkipsEngine(text) == ~text.str \/ Strip(text.text) = <<>>

\* preprocess_and_store_tokens is entered: processed_texts = []
StartAnnotation ==
    /\ loaded /\ apc = "idle"
    /\ apc' = "loop"
    /\ apos' = 1
    /\ processed_texts' = <<>>
    /\ UNCHANGED <<storeVars, writerVars, runVars, dfVars, sampleVars, engineLog, metricVars>>

\* one iteration of the loop over combined_df.iterrows()
AnnotateRow ==
    /\ apc = "loop" /\ apos <= Len(combined_df)
    /\ LET text == combined_df[apos].content
       IN  IF SkipsEngine(text)
           THEN /\ processed_texts' = Append(processed_texts, NoDoc)
                /\ UNCHANGED engineLog
           ELSE \E outcome \in Docs \cup {Raises} :
                  /\ engineLog' = Append(engineLog, [row |-> apos, out |-> outcome])
                  /\ processed_texts' =
                        Append(processed_texts,
                               IF outcome = Raises THEN NoDoc ELSE outcome)
    /\ apos' = apos + 1
    /\ UNCHANGED <<storeVars, writerVars, runVars, dfVars, sampleVars, apc, metricVars>>

\* after the loop: the assertion on the length, and the results become the
\* column stanza_output, result i in row i
FinishAnnotation ==
    /\ apc = "loop" /\ apos > Len(combined_df)
    /\ IF Len(processed_texts) = Len(combined_df)
       THEN /\ apc' = "done"
            /\ combined_df' = [i \in DOMAIN combined_df |->
                   combined_df[i] @@ [stanza_output |-> processed_texts[i]]]
       ELSE /\ apc' = "assert_failed"
            /\ UNCHANGED combined_df
    /\ UNCHANGED <<storeVars, writerVars, runVars, loaded, sampleVars, apos,
                   processed_texts, engineLog, metricVars>>

NextAnnot ==
    \/ LoadingData({1980}, ContentValues)
    \/ StartAnnotation
    \/ AnnotateRow
    \/ FinishAnnotation

SpecAnnot == Init /\ [][NextAnnot]_vars

(***************************************************************************)
(* Claims about the annotation.                                            *)
(***************************************************************************)
EngineCalls(i) == {j \in DOMAIN engineLog : engineLog[j].row = i}

\* the text of the row is a string with something other than whitespace in it
HasText(row) ==
    row.content.str /\ \E j \in DOMAIN row.content.text : row.content.text[j] # " "

\* C10: preprocess_and_store_tokens gives one result per row, result i for
\* row i: None without a call of the engine for a row whose content is not
\* a string or is empty or whitespace; None when the engine raised, without a
\* second call, the loop going on; the engine's document otherwise.
C10_OneResultPerRow ==
    /\ apc = "loop" => Len(processed_texts) = apos - 1
    /\ apc # "assert_failed"
    /\ apc = "done" =>
         \A i \in DOMAIN combined_df :
            LET row == combined_df[i]
            IN  IF HasText(row)
                THEN /\ Cardinality(EngineCalls(i)) = 1
                     /\ \A j \in EngineCalls(i) :
                          row.stanza_output =
                             (IF engineLog[j].out = Raises THEN NoDoc
                              ELSE engineLog[j].out)
                ELSE /\ EngineCalls(i) = {}
                     /\ row.stanza_output = NoDoc

\* the run ended with a row whose content is only whitespace, a row on which
\* the engine raised, and a later row that has its document
C10_Witness ==
    /\ apc = "done"
    /\ \E i \in DOMAIN combined_df :
         /\ combined_df[i].content.str
         /\ combined_df[i].content.text # <<>>
         /\ ~HasText(combined_df[i])
    /\ \E a, b \in DOMAIN engineLog :
         /\ a < b
         /\ engineLog[a].out = Raises
         /\ combined_df[engineLog[b].row].stanza_output \in Docs

(***************************************************************************)
(* The annotated collection the metric extractors consume: the rows as     *)
(* they are after loading_data and preprocess_and_store_tokens             *)
(* (main.py 172).  A document is a sequence of sentences, a sentence a     *)
(* sequence of words with the attributes id, head, upos and lemma.         *)
(***************************************************************************)
\* rows of the annotated collection
MaxSpeeches == 2
\* sentences in the documents of the collection, all rows together
MaxSentences == 2
\* words in the documents of the collection, all rows together
MaxWords == 2

\* the attributes upos and lemma of a word; a lemma is a string or None
Attr(upos, lemma) == [upos |-> upos, lemma |-> lemma]
PlainWord == Attr("X", Str(<<"a">>))

\* the heads of a sentence of n words: any word or 0 (the root) for each
\* word, or the chain in which word 1 is the root and word i depends on i - 1
HeadsOf(n, anyHead) ==
    IF anyHead THEN [1..n -> 0..n] ELSE {[i \in 1..n |-> i - 1]}

\* the sentences of n words; word.id is the 1-based position
SentencesOf(n, anyHead, attrs) ==
    {[words |-> [i \in 1..n |-> [id |-> i, head |-> h[i], upos |-> a[i].upos,
                                 lemma |-> a[i].lemma]]] :
        h \in HeadsOf(n, anyHead), a \in [1..n -> attrs]}

\* the sentence sequences of at most ns sentences and nw words
RECURSIVE SentenceSeqs(_, _, _, _)
SentenceSeqs(ns, nw, anyHead, attrs) ==
    IF ns = 0 THEN {<<>>}
    ELSE {<<>>} \cup
         UNION {{<<s>> \o rest :
                    rest \in SentenceSeqs(ns - 1, nw - Len(s.words), anyHead, attrs)} :
                s \in UNION {SentencesOf(n, anyHead, attrs) : n \in 0..nw}}

Document(sentences) == [kind |-> "doc", sentences |-> sentences]

\* row['stanza_output']: None, or a document within the sizes left
StanzaOutputs(ns, nw, anyHead, attrs) ==
    {NoDoc} \cup {Document(ss) : ss \in SentenceSeqs(ns, nw, anyHead, attrs)}

SentencesIn(doc) == IF doc = NoDoc THEN <<>> ELSE doc.sentences

RECURSIVE SumLen(_)
SumLen(seqs) == IF seqs = <<>> THEN 0 ELSE Len(Head(seqs)) + SumLen(Tail(seqs))

WordsIn(doc) == SumLen([k \in DOMAIN SentencesIn(doc) |-> SentencesIn(doc)[k].words])

RECURSIVE TotalSentences(_)
TotalSentences(df) ==
    IF df = <<>> THEN 0
    ELSE Len(SentencesIn(Head(df).stanza_output)) + TotalSentences(Tail(df))

RECURSIVE TotalWords(_)
TotalWords(df) ==
    IF df = <<>> THEN 0
    ELSE WordsIn(Head(df).stanza_output) + TotalWords(Tail(df))

\* the documents that fit into what the bounds leave
DocsLeft(anyHead, attrs) ==
    StanzaOutputs(MaxSentences - TotalSentences(combined_df),
                  MaxWords - TotalWords(combined_df), anyHead, attrs)

\* one more row of the collection, with the columns the extractors read
LoadAnnotatedSpeech(years, texts, docs) ==
    /\ ~loaded
    /\ Len(combined_df) < MaxSpeeches
    /\ \E year \in years, text \in texts, doc \in docs :
          combined_df' = Append(combined_df,
              [id |-> Len(combined_df) + 1, year |-> year, content |-> text.content,
               clean_content |-> text.clean_content,
               lemmatized_content |-> text.lemmatized_content,
               stanza_output |-> doc])
    /\ UNCHANGED <<storeVars, writerVars, runVars, loaded, sampleVars, annotVars,
                   metricVars>>

\* the collection is complete: the extractors are called on it from here on
EndLoading ==
    /\ ~loaded
    /\ loaded' = TRUE
    /\ UNCHANGED <<storeVars, writerVars, runVars, combined_df, sampleVars,
                   annotVars, metricVars>>

\* the three text columns of a row
Texts(content, clean_content, lemmatized_content) ==
    [content |-> content, clean_content |-> clean_content,
     lemmatized_content |-> lemmatized_content]
PlainTexts == Texts(Str(<<"a">>), Str(<<"a">>), Str(<<"a">>))

(***************************************************************************)
(* The metric extractors of complexity_analysis.py.  A value is a ratio    *)
(* num / den (den = 1 for a count), or None.  An extractor returns the two *)
(* lists it built, or raises; `units` is history: the row and sentence     *)
(* each value was computed from.                                           *)
(***************************************************************************)
Ratio(n, d) == [num |-> n, den |-> d]
NoValue == [num |-> 0, den |-> 0]
Unit(row, k) == [row |-> row.id, sentence |-> k]

\* years = []; values = []
Acc0 == [years |-> <<>>, values |-> <<>>, units |-> <<>>, exc |-> FALSE]

\* int(year) raises ValueError for a missing year (NaN)
IntRaises(year) == year = NaN

\* years.append(int(year)); values.append(value)
AppendPair(acc, year, value, unit) ==
    IF IntRaises(year) THEN [acc EXCEPT !.exc = TRUE]
    ELSE [years |-> Append(acc.years, year), values |-> Append(acc.values, value),
          units |-> Append(acc.units, unit), exc |-> FALSE]

\* return values, years: or the exception that left the function
Outcome(op, acc) ==
    IF acc.exc
    THEN [op |-> op, arg |-> {}, status |-> "raised", values |-> <<>>,
          years |-> <<>>, units |-> <<>>]
    ELSE [op |-> op, arg |-> {}, status |-> "returned", values |-> acc.values,
          years |-> acc.years, units |-> acc.units]

Min(S) == CHOOSE m \in S : \A o \in S : m <= o

\* the positions of the words with head 0
RootsOf(words) == {i \in DOMAIN words : words[i].head = 0}

\* root_id = 0, then the id of the first word with head 0
root_id_of(words) ==
    IF RootsOf(words) = {} THEN 0 ELSE words[Min(RootsOf(words))].id

\* the second loop with a test that also accepts every word with head 0
dependents_or_roots(words, root_id) ==
    {i \in DOMAIN words : words[i].head = root_id \/ words[i].head = 0}

\* the second loop: the words with word.head == root_id
dependents_of_root(words, root_id) ==
    {i \in DOMAIN words : words[i].head = root_id}

\* a count that is also incremented for every word inspected in the search
\* for the root
count_in_both_loops(text) ==
    LET words == text.words
        roots == {i \in DOMAIN words : words[i].head = 0}
        root_id == IF roots = {} THEN 0 ELSE words[Min(roots)].id
        inspected == IF roots = {} THEN Len(words) ELSE Min(roots)
        dependencies == Cardinality({i \in DOMAIN words : words[i].head = root_id})
    IN  <<inspected + dependencies, Len(words)>>

\* count_root_dependencies(text): the words whose head is the id of the
\* first word with head 0 (0 when there is none), and the number of words
count_root_dependencies(text) ==
    LET words == text.words
        root_id == root_id_of(words)
        dependencies == Cardinality(dependents_of_root(words, root_id))
    IN  <<dependencies, Len(words)>>

\* root_dependencies: the loop over the sentences of one row
RECURSIVE root_dependencies_sentences(_, _, _)
root_dependencies_sentences(acc, row, k) ==
    IF acc.exc \/ k > Len(row.stanza_output.sentences) THEN acc
    ELSE LET sentence == row.stanza_output.sentences[k]
             sentence_root_dependencies == count_root_dependencies(sentence)[1]
         IN  root_dependencies_sentences(
                 AppendPair(acc, row.year, Ratio(sentence_root_dependencies, 1),
                            Unit(row, k)),
                 row, k + 1)

\* root_dependencies: the loop over combined_df.iterrows()
RECURSIVE root_dependencies_rows(_, _, _)
root_dependencies_rows(acc, rows, i) ==
    IF acc.exc \/ i > Len(rows) THEN acc
    ELSE root_dependencies_rows(
             IF rows[i].stanza_output = NoDoc THEN acc
             ELSE root_dependencies_sentences(acc, rows[i], 1),
             rows, i + 1)

root_dependencies(df, cap) ==
    Outcome("root_dependencies",
            root_dependencies_rows(Acc0, root_dependencies_collection(df, cap).rows, 1))

\* sentence_root_dependencies / sentence_word_count if sentence_word_count > 0 else 0
normalized_dependencies(sentence) ==
    LET c == count_root_dependencies(sentence)
    IN  IF c[2] > 0 THEN Ratio(c[1], c[2]) ELSE Ratio(0, 1)

RECURSIVE root_dependencies_divided_sentences(_, _, _)
root_dependencies_divided_sentences(acc, row, k) ==
    IF acc.exc \/ k > Len(row.stanza_output.sentences) THEN acc
    ELSE root_dependencies_divided_sentences(
             AppendPair(acc, row.year,
                        normalized_dependencies(row.stanza_output.sentences[k]),
                        Unit(row, k)),
             row, k + 1)

RECURSIVE root_dependencies_divided_rows(_, _, _)
root_dependencies_divided_rows(acc, rows, i) ==
    IF acc.exc \/ i > Len(rows) THEN acc
    ELSE root_dependencies_divided_rows(
             IF rows[i].stanza_output = NoDoc THEN acc
             ELSE root_dependencies_divided_sentences(acc, rows[i], 1),
             rows, i + 1)

root_dependencies_divided_by_sentence_word_count(df, cap) ==
    Outcome("root_dependencies_divided_by_sentence_word_count",
            root_dependencies_divided_rows(
                Acc0, root_dependencies_divided_collection(df, cap).rows, 1))

\* the caps the extractors are called with: none (as feature_extraction
\* does, main.py 160) or one speech per year
MetricCaps == {NoCap, 1}

\* a call of a metric extractor on the collection: its result, and the
\* collection it worked on, and the draws it made from the global generator of
\* the random module.  A behaviour holds one call: the extractors read the
\* collection and leave it as it is.
CanCall == loaded /\ result = NoResult

CallWithDraws(op, cap, c, r, draws) ==
    /\ CanCall
    /\ rng + draws <= MaxDraws
    /\ lastOp' = [op |-> op, cap |-> cap, input |-> combined_df, used |-> c.rows,
                  sampled |-> c.sampled, again |-> FALSE]
    /\ result' = r
    /\ rng' = rng + draws
    /\ UNCHANGED <<storeVars, writerVars, runVars, dfVars, samples, annotVars>>

\* a call of an extractor that draws nothing from the global generator
Call(op, cap, c, r) == CallWithDraws(op, cap, c, r, 0)

RootDependencies ==
    /\ CanCall
    /\ \E cap \in MetricCaps :
           Call("root_dependencies", cap,
                root_dependencies_collection(combined_df, cap),
                root_dependencies(combined_df, cap))

RootDependenciesDivided ==
    /\ CanCall
    /\ \E cap \in MetricCaps :
           Call("root_dependencies_divided_by_sentence_word_count", cap,
                root_dependencies_divided_collection(combined_df, cap),
                root_dependencies_divided_by_sentence_word_count(combined_df, cap))

NextRoot ==
    \/ LoadAnnotatedSpeech({1980, NaN}, {PlainTexts}, DocsLeft(TRUE, {PlainWord}))
    \/ EndLoading
    \/ RootDependencies
    \/ RootDependenciesDivided

SpecRoot == Init /\ [][NextRoot]_vars

(***************************************************************************)
(* Claims about the root-dependency metrics.                               *)
(***************************************************************************)
RowById(rows, id) == rows[CHOOSE i \in DOMAIN rows : rows[i].id = id]

\* the row and the sentence a value was computed from
UnitRow(u) == RowById(lastOp.used, u.row)
UnitSentence(u) == UnitRow(u).stanza_output.sentences[u.sentence]

\* the sentences of the annotated rows of the collection an extractor worked on
SentenceUnits(rows) ==
    {[row |-> rows[i].id, sentence |-> k] :
        i \in {j \in DOMAIN rows : rows[j].stanza_output # NoDoc},
        k \in 1..MaxSentences} \cap
    UNION {{[row |-> rows[i].id, sentence |-> k] :
               k \in DOMAIN SentencesIn(rows[i].stanza_output)} : i \in DOMAIN rows}

\* C15: root_dependencies emits no pair for a sentence that has zero words.
C15_NoPairForEmptySentence ==
    (result.op = "root_dependencies" /\ result.status = "returned") =>
        \A i \in DOMAIN result.units :
            Len(UnitSentence(result.units[i]).words) > 0

\* C16: for every sentence with at least one word the count of
\* count_root_dependencies is at most the number of words, and every ratio
\* root_dependencies_divided_by_sentence_word_count emits is in [0, 1].
C16_CountAtMostWords ==
    /\ \A i \in DOMAIN combined_df :
         \A k \in DOMAIN SentencesIn(combined_df[i].stanza_output) :
            LET sentence == combined_df[i].stanza_output.sentences[k]
                c == count_root_dependencies(sentence)
            IN  Len(sentence.words) > 0 =>
                    /\ c[1] >= 0
                    /\ c[1] <= Len(sentence.words)
    /\ result.op = "root_dependencies_divided_by_sentence_word_count" =>
         \A i \in DOMAIN result.values :
            /\ result.values[i].den > 0
            /\ 0 <= result.values[i].num
            /\ result.values[i].num <= result.values[i].den

\* a ratio was emitted for a sentence in which several words have head 0
C16_Witness ==
    /\ result.op = "root_dependencies_divided_by_sentence_word_count"
    /\ result.status = "returned"
    /\ \E i \in DOMAIN result.units :
         LET words == UnitSentence(result.units[i]).words
         IN  Cardinality({n \in DOMAIN words : words[n].head = 0}) > 1

\* C17: root_dependencies_divided_by_sentence_word_count emits, for every
\* sentence of every annotated speech of the collection it works on, one pair:
\* the root-dependency count divided by the number of words (0 for a sentence
\* of zero words), with the year of the speech.
C17_RatioForEverySentence ==
    result.op = "root_dependencies_divided_by_sentence_word_count" =>
        /\ result.status = "returned"
        /\ Len(result.values) = Cardinality(SentenceUnits(lastOp.used))
        /\ \A u \in SentenceUnits(lastOp.used) :
             \E i \in DOMAIN result.units :
                LET c == count_root_dependencies(UnitSentence(u))
                IN  /\ result.units[i] = u
                    /\ result.years[i] = UnitRow(u).year
                    /\ result.values[i] =
                          (IF c[2] = 0 THEN Ratio(0, 1) ELSE Ratio(c[1], c[2]))

\* a sentence of zero words got the value 0 with the year of its speech, next
\* to a sentence with words
C17_ZeroWordsEmitted ==
    /\ result.op = "root_dependencies_divided_by_sentence_word_count"
    /\ result.status = "returned"
    /\ \E i, j \in DOMAIN result.units :
         /\ UnitSentence(result.units[i]).words = <<>>
         /\ result.values[i] = Ratio(0, 1)
         /\ result.years[i] = UnitRow(result.units[i]).year
         /\ UnitSentence(result.units[j]).words # <<>>

(***************************************************************************)
(* part_of_speech_analysis and noun_compound_analysis.                     *)
(***************************************************************************)
\* word_classes: the 17 tags (main.py 101-103)
word_classes == {"ADJ", "ADP", "ADV", "AUX", "CCONJ", "DET", "INTJ", "NOUN",
                 "NUM", "PART", "PRON", "PROPN", "PUNCT", "SCONJ", "SYM",
                 "VERB", "X"}

\* all words of a document, sentence after sentence
RECURSIVE Flatten(_)
Flatten(seqs) == IF seqs = <<>> THEN <<>> ELSE Head(seqs) \o Flatten(Tail(seqs))
DocWords(doc) == Flatten([k \in DOMAIN doc.sentences |-> doc.sentences[k].words])

\* a total that counts the sentences instead of their words
total_sentences(doc) == Len(doc.sentences)

\* total_words = sum(len(sentence.words) for sentence in doc.sentences)
total_words(doc) == Len(DocWords(doc))

\* pos_count: the words whose upos is in abbreviation (the tag set
\* abbreviation.split())
pos_count(doc, abbreviation) ==
    Cardinality({n \in DOMAIN DocWords(doc) : DocWords(doc)[n].upos \in abbreviation})

\* part_of_speech_analysis: the loop over combined_df.iterrows()
RECURSIVE part_of_speech_rows(_, _, _, _)
part_of_speech_rows(acc, rows, i, abbreviation) ==
    IF acc.exc \/ i > Len(rows) THEN acc
    ELSE LET doc == rows[i].stanza_output
         IN  part_of_speech_rows(
                 IF doc = NoDoc THEN acc
                 ELSE IF total_words(doc) > 0
                      THEN AppendPair(acc, rows[i].year,
                                      Ratio(pos_count(doc, abbreviation), total_words(doc)),
                                      Unit(rows[i], 0))
                      ELSE acc,
                 rows, i + 1, abbreviation)

part_of_speech_analysis(df, abbreviation, cap) ==
    Outcome("part_of_speech_analysis",
            part_of_speech_rows(Acc0, part_of_speech_analysis_collection(df, cap).rows,
                                1, abbreviation))

\* "#" in word.lemma raises TypeError for a lemma that is not a string
LemmaRaises(word) == ~word.lemma.str
HasSeparator(chars) == \E n \in DOMAIN chars : chars[n] = "#"

\* years.append(0); noun_compound_ratios.append(0)
AppendSentinel(acc, unit) ==
    [years |-> Append(acc.years, 0), values |-> Append(acc.values, Ratio(0, 1)),
     units |-> Append(acc.units, unit), exc |-> FALSE]

Nouns(doc) == {n \in DOMAIN DocWords(doc) : DocWords(doc)[n].upos = "NOUN"}

\* the try block raises: at a noun whose lemma is not a string, or in
\* int(year) when there are nouns
NounBlockRaises(row) ==
    \/ \E n \in Nouns(row.stanza_output) : LemmaRaises(DocWords(row.stanza_output)[n])
    \/ Nouns(row.stanza_output) # {} /\ IntRaises(row.year)

noun_compound_count(doc) ==
    Cardinality({n \in Nouns(doc) : HasSeparator(DocWords(doc)[n].lemma.text)})

\* one speech in which the ratio is computed whatever the number of nouns: a
\* division by zero raises and is caught
noun_compound_speech_unguarded(acc, row) ==
    IF NounBlockRaises(row) \/ Nouns(row.stanza_output) = {}
    THEN AppendSentinel(acc, Unit(row, 0))
    ELSE AppendPair(acc, row.year,
                    Ratio(noun_compound_count(row.stanza_output),
                          Cardinality(Nouns(row.stanza_output))),
                    Unit(row, 0))

\* noun_compound_analysis: the try / except of one speech
noun_compound_speech(acc, row) ==
    IF NounBlockRaises(row) THEN AppendSentinel(acc, Unit(row, 0))
    ELSE IF Cardinality(Nouns(row.stanza_output)) > 0
         THEN AppendPair(acc, row.year,
                         Ratio(noun_compound_count(row.stanza_output),
                               Cardinality(Nouns(row.stanza_output))),
                         Unit(row, 0))
         ELSE acc

\* noun_compound_analysis: the loop over combined_df.iterrows()
RECURSIVE noun_compound_rows(_, _, _)
noun_compound_rows(acc, rows, i) ==
    IF acc.exc \/ i > Len(rows) THEN acc
    ELSE noun_compound_rows(
             IF rows[i].stanza_output = NoDoc THEN acc
             ELSE noun_compound_speech(acc, rows[i]),
             rows, i + 1)

noun_compound_analysis(df, cap) ==
    Outcome("noun_compound_analysis",
            noun_compound_rows(Acc0, noun_compound_analysis_collection(df, cap).rows, 1))

\* POS_analysis: the tag sets feature_extraction asks for (main.py 109-114)
POS_analysis == {{"VERB"}, {"NOUN"}, {"PRON"}, {"CCONJ", "SCONJ"}}
OtherTags == word_classes \ UNION POS_analysis

PartOfSpeechAnalysis ==
    /\ CanCall
    /\ \E cap \in MetricCaps, abbreviation \in POS_analysis \cup {OtherTags} :
           Call("part_of_speech_analysis", cap,
                part_of_speech_analysis_collection(combined_df, cap),
                [part_of_speech_analysis(combined_df, abbreviation, cap)
                    EXCEPT !.arg = abbreviation])

NounCompoundAnalysis ==
    /\ CanCall
    /\ \E cap \in MetricCaps :
           Call("noun_compound_analysis", cap,
                noun_compound_analysis_collection(combined_df, cap),
                noun_compound_analysis(combined_df, cap))

\* the words of the speeches for the tag proportions
TaggedWords ==
    {Attr("VERB", Str(<<"a">>)), Attr("CCONJ", Str(<<"a">>)),
     Attr("NOUN", Str(<<"a">>))}

NextPos ==
    \/ LoadAnnotatedSpeech({1980, NaN}, {PlainTexts}, DocsLeft(FALSE, TaggedWords))
    \/ EndLoading
    \/ PartOfSpeechAnalysis

SpecPos == Init /\ [][NextPos]_vars

\* the words of the speeches for the noun compounds: a verb, a noun, a
\* compound noun and a noun whose lemma is None
NounWords ==
    {Attr("VERB", Str(<<"a">>)), Attr("NOUN", Str(<<"a">>)),
     Attr("NOUN", Str(<<"a", "#", "b">>)), Attr("NOUN", NotStr)}

NextNoun ==
    \/ LoadAnnotatedSpeech({1980, NaN}, {PlainTexts}, DocsLeft(FALSE, NounWords))
    \/ EndLoading
    \/ NounCompoundAnalysis

SpecNoun == Init /\ [][NextNoun]_vars

(***************************************************************************)
(* Claims about the tag proportions and the noun compounds.                *)
(***************************************************************************)
\* the pairs an extractor emitted for a row
PairsOf(row) == {i \in DOMAIN result.units : result.units[i].row = row.id}

RECURSIVE SumCounts(_, _)
SumCounts(doc, parts) ==
    IF parts = {} THEN 0
    ELSE LET part == CHOOSE t \in parts : TRUE
         IN  pos_count(doc, part) + SumCounts(doc, parts \ {part})

\* partitions of the full tag set: the tag sets of POS_analysis and the rest,
\* the single tags, and each tag set of POS_analysis against its complement
TagPartitions ==
    {POS_analysis \cup {OtherTags}, {{t} : t \in word_classes}}
    \cup {{part, word_classes \ part} : part \in POS_analysis}

\* C18: every proportion part_of_speech_analysis emits is in [0, 1]; for a
\* speech with words it is the matching words over the total words, and over
\* a partition of the 17 tags the matching-word counts sum to the total; a
\* speech with zero words emits nothing.
C18_ProportionsOfPartition ==
    /\ \A i \in DOMAIN combined_df :
         combined_df[i].stanza_output # NoDoc =>
            \A parts \in TagPartitions :
                SumCounts(combined_df[i].stanza_output, parts)
                    = total_words(combined_df[i].stanza_output)
    /\ result.op = "part_of_speech_analysis" =>
         /\ \A i \in DOMAIN result.values :
              /\ result.values[i].den > 0
              /\ 0 <= result.values[i].num
              /\ result.values[i].num <= result.values[i].den
              /\ result.values[i].den = WordsIn(UnitRow(result.units[i]).stanza_output)
         /\ \A n \in DOMAIN lastOp.used :
              WordsIn(lastOp.used[n].stanza_output) = 0 => PairsOf(lastOp.used[n]) = {}

\* a proportion strictly between 0 and 1 was emitted for a speech, and an
\* annotated speech with zero words was skipped
C18_Witness ==
    /\ result.op = "part_of_speech_analysis"
    /\ result.status = "returned"
    /\ \E i \in DOMAIN result.values :
         0 < result.values[i].num /\ result.values[i].num < result.values[i].den
    /\ \E n \in DOMAIN lastOp.used :
         /\ lastOp.used[n].stanza_output # NoDoc
         /\ WordsIn(lastOp.used[n].stanza_output) = 0

\* C13: for every annotated speech noun_compound_analysis processes: when an
\* exception occurs exactly one pair (0, 0) is emitted; otherwise nothing is
\* emitted when it has no noun, and exactly one pair (compound nouns / nouns,
\* year) when it has nouns.
C13_NounCompoundPairs ==
    result.op = "noun_compound_analysis" =>
        /\ result.status = "returned"
        /\ \A n \in DOMAIN lastOp.used :
             LET row == lastOp.used[n]
                 doc == row.stanza_output
                 words == DocWords(doc)
                 nouns == {w \in DOMAIN words : words[w].upos = "NOUN"}
                 compounds == {w \in nouns : \E c \in DOMAIN words[w].lemma.text :
                                                words[w].lemma.text[c] = "#"}
             IN  doc # NoDoc =>
                   IF NounBlockRaises(row)
                   THEN /\ Cardinality(PairsOf(row)) = 1
                        /\ \A i \in PairsOf(row) :
                             result.values[i] = Ratio(0, 1) /\ result.years[i] = 0
                   ELSE IF nouns = {}
                   THEN PairsOf(row) = {}
                   ELSE /\ Cardinality(PairsOf(row)) = 1
                        /\ \A i \in PairsOf(row) :
                             /\ result.values[i] =
                                   Ratio(Cardinality(compounds), Cardinality(nouns))
                             /\ result.years[i] = row.year

\* a speech with a noun whose lemma is None got the pair (0, 0), and a speech
\* with words and no noun got nothing
C13_Witness ==
    /\ result.op = "noun_compound_analysis"
    /\ result.status = "returned"
    /\ \E i \in DOMAIN result.units :
         /\ result.years[i] = 0
         /\ UnitRow(result.units[i]).year # NaN
    /\ \E n \in DOMAIN lastOp.used :
         /\ lastOp.used[n].stanza_output # NoDoc
         /\ WordsIn(lastOp.used[n].stanza_output) > 0
         /\ PairsOf(lastOp.used[n]) = {}

(***************************************************************************)
(* The text columns and compound_word_analysis.  A text cell is a string   *)
(* (its characters) or missing (NaN).                                      *)
(***************************************************************************)
\* characters in one text column of the collection, all rows together
MaxChars == 3

\* the strings of at most n characters over an alphabet
StringsUpTo(n, alphabet) == UNION {[1..m -> alphabet] : m \in 0..n}

\* the cells of a text column: missing, or a string
TextCells(n, alphabet) == {NotStr} \cup {Str(chars) : chars \in StringsUpTo(n, alphabet)}

RECURSIVE CharsIn(_, _)
CharsIn(df, column) ==
    IF df = <<>> THEN 0
    ELSE Len(Head(df)[column].text) + CharsIn(Tail(df), column)

\* the cells that fit into what the bound leaves for the column
CellsLeft(column, alphabet) ==
    TextCells(MaxChars - CharsIn(combined_df, column), alphabet)

\* the length of the word a text starts with
WordLen(chars) ==
    IF \E n \in DOMAIN chars : IsSpace(chars[n])
    THEN Min({n \in DOMAIN chars : IsSpace(chars[n])}) - 1
    ELSE Len(chars)

\* str.split(): the words of a text, separated by runs of whitespace
RECURSIVE Split(_)
Split(chars) ==
    IF chars = <<>> THEN <<>>
    ELSE IF IsSpace(Head(chars)) THEN Split(Tail(chars))
    ELSE <<SubSeq(chars, 1, WordLen(chars))>>
         \o Split(SubSeq(chars, WordLen(chars) + 1, Len(chars)))

\* values.append(value); years.append(year), the year as it is in the row
AppendRow(acc, year, value, unit) ==
    [years |-> Append(acc.years, year), values |-> Append(acc.values, value),
     units |-> Append(acc.units, unit), exc |-> FALSE]

\* combined_df.dropna(subset=['lemmatized_content', 'year'])
DropNaLemmatizedYear(rows) ==
    SelectSeq(rows, LAMBDA r : r.lemmatized_content # NotStr /\ r.year # NaN)

\* the lambda of compound_ratio: the words containing "#" over the words,
\* None for a text without words
compound_ratio(text) ==
    LET words == Split(text.text)
    IN  IF text.str /\ Len(words) > 0
        THEN Ratio(Cardinality({n \in DOMAIN words : HasSeparator(words[n])}), Len(words))
        ELSE NoValue

\* filtered_df['compound_ratio'], filtered_df['year']: one entry per row of
\* filtered_df
RECURSIVE compound_word_rows(_, _, _)
compound_word_rows(acc, rows, i) ==
    IF i > Len(rows) THEN acc
    ELSE compound_word_rows(
             AppendRow(acc, rows[i].year, compound_ratio(rows[i].lemmatized_content),
                       Unit(rows[i], 0)),
             rows, i + 1)

compound_word_analysis(df, cap) ==
    Outcome("compound_word_analysis",
            compound_word_rows(
                Acc0, DropNaLemmatizedYear(compound_word_analysis_collection(df, cap).rows), 1))

CompoundWordAnalysis ==
    /\ CanCall
    /\ \E cap \in MetricCaps :
           Call("compound_word_analysis", cap,
                compound_word_analysis_collection(combined_df, cap),
                compound_word_analysis(combined_df, cap))

\* the lemmatized texts: letters, the separator "#" and whitespace
LemmatizedTexts ==
    {Texts(Str(<<"a">>), Str(<<"a">>), cell) :
        cell \in CellsLeft("lemmatized_content", {" ", "a", "#"})}

NextCompound ==
    \/ LoadAnnotatedSpeech(YearValues \cup {NaN}, LemmatizedTexts, {NoDoc})
    \/ EndLoading
    \/ CompoundWordAnalysis

SpecCompound == Init /\ [][NextCompound]_vars

\* the words of the lemmatized text of a row
LemmatizedWords(row) ==
    IF row.lemmatized_content.str THEN Split(row.lemmatized_content.text) ELSE <<>>

\* C14: compound_word_analysis emits no pair for a speech whose lemmatized
\* text is missing, empty or only whitespace; every value emitted is the
\* number of lemmatized words containing "#" over the number of lemmatized
\* words.
C14_NoPairWithoutWords ==
    result.op = "compound_word_analysis" =>
        /\ \A n \in DOMAIN lastOp.used :
             LemmatizedWords(lastOp.used[n]) = <<>> => PairsOf(lastOp.used[n]) = {}
        /\ \A i \in DOMAIN result.values :
             LET words == LemmatizedWords(UnitRow(result.units[i]))
             IN  /\ result.values[i] # NoValue
                 /\ words # <<>>
                 /\ result.values[i] =
                       Ratio(Cardinality({n \in DOMAIN words :
                                             \E c \in DOMAIN words[n] : words[n][c] = "#"}),
                             Len(words))

\* the ratio 1/2 was emitted for a text of two words, one with the separator
C14_HalfRatio ==
    /\ result.op = "compound_word_analysis"
    /\ \E i \in DOMAIN result.values :
         /\ result.values[i] = Ratio(1, 2)
         /\ result.years[i] = UnitRow(result.units[i]).year

(***************************************************************************)
(* calculate_ttr and ttr_analysis.  The start of a window is drawn from    *)
(* the global generator of the random module: any offset of the range.     *)
(***************************************************************************)
\* largest window size (sample_size) of calculate_ttr
MaxWindow == 2

\* offsets that let the window run past the end of the text
StartOffsetsPastEnd(all_words, sample_size) == 0..(Len(all_words) - 1)

\* random.randint(0, len(all_words) - sample_size): both ends included
StartOffsets(all_words, sample_size) == 0..(Len(all_words) - sample_size)

\* all_words[start_index:start_index + sample_size]: a slice stops at the
\* end of the list
Slice(all_words, start_index, sample_size) ==
    SubSeq(all_words, start_index + 1,
           IF start_index + sample_size < Len(all_words)
           THEN start_index + sample_size ELSE Len(all_words))

\* len(set(sample)) / sample_size
ttr_of(sample, sample_size) ==
    Ratio(Cardinality({sample[n] : n \in DOMAIN sample}), sample_size)

\* calculate_ttr(text, sample_size) with the offset the generator gave: None
\* for a text of fewer words than the window
calculate_ttr(text, sample_size, start_index) ==
    LET all_words == Split(text)
    IN  IF Len(all_words) < sample_size THEN NoValue
        ELSE ttr_of(Slice(all_words, start_index, sample_size), sample_size)

\* the offsets calculate_ttr may be given for a text: none is drawn for a
\* text of fewer words than the window
Draws(text, sample_size) ==
    IF Len(Split(text)) < sample_size THEN {0}
    ELSE StartOffsets(Split(text), sample_size)

\* " ".join(texts)
RECURSIVE Join(_)
Join(texts) ==
    IF texts = <<>> THEN <<>>
    ELSE IF Len(texts) = 1 THEN texts[1]
    ELSE texts[1] \o <<" ">> \o Join(Tail(texts))

\* the groups of combined_df.groupby("year"): rows without a year are in no group
GroupYears(rows) == YearsOf(rows) \ {NaN}

\* speeches_as_text = " ".join(group["content"].dropna())
speeches_as_text(rows, year) ==
    LET group == SelectSeq(rows, LAMBDA r : r.year = year /\ r.content # NotStr)
    IN  Join([n \in DOMAIN group |-> group[n].content.text])

\* a loop that makes one draw too many
SampleRangeInclusive(number_of_samples) == 0..number_of_samples

\* range(number_of_samples)
SampleRange(number_of_samples) == 1..number_of_samples

\* the offsets the generator may give in a call of ttr_analysis: for every
\* year, one for each draw
RECURSIVE StartChoices(_, _, _, _)
StartChoices(rows, years, sample_size, number_of_samples) ==
    IF years = {} THEN {<<>>}
    ELSE LET year == Min(years)
         IN  {(year :> starts) @@ rest :
                 starts \in [SampleRange(number_of_samples) ->
                                Draws(speeches_as_text(rows, year), sample_size)],
                 rest \in StartChoices(rows, years \ {year}, sample_size,
                                       number_of_samples)}

\* the years that have enough words for a window
EnoughWords(rows, sample_size) ==
    {year \in GroupYears(rows) :
        Len(Split(speeches_as_text(rows, year))) >= sample_size}

\* ttr_analysis: the draws of one year
RECURSIVE ttr_samples(_, _, _, _, _, _)
ttr_samples(acc, text, year, sample_size, todo, starts) ==
    IF todo = {} THEN acc
    ELSE LET draw == Min(todo)
             ttr == calculate_ttr(text, sample_size, starts[draw])
         IN  ttr_samples(
                 IF ttr # NoValue
                 THEN AppendRow(acc, year, ttr,
                                [year |-> year, draw |-> draw, start_index |-> starts[draw]])
                 ELSE acc,
                 text, year, sample_size, todo \ {draw}, starts)

\* ttr_analysis: the loop over the groups, in ascending order of the year
RECURSIVE ttr_years(_, _, _, _, _, _)
ttr_years(acc, rows, years, sample_size, number_of_samples, starts) ==
    IF years = {} THEN acc
    ELSE LET year == Min(years)
             text == speeches_as_text(rows, year)
         IN  ttr_years(
                 IF Len(Split(text)) < sample_size THEN acc
                 ELSE ttr_samples(acc, text, year, sample_size,
                                  SampleRange(number_of_samples), starts[year]),
                 rows, years \ {year}, sample_size, number_of_samples, starts)

ttr_analysis(df, sample_size, number_of_samples, starts) ==
    Outcome("ttr_analysis",
            ttr_years(Acc0, ttr_analysis_collection(df, NoCap).rows, GroupYears(df),
                      sample_size, number_of_samples, starts))

\* one call of calculate_ttr on the text of a year
CalculateTtr ==
    /\ CanCall
    /\ \E year \in GroupYears(combined_df), sample_size \in 1..MaxWindow :
           LET text == speeches_as_text(combined_df, year)
           IN  \E start_index \in Draws(text, sample_size) :
                  CallWithDraws("calculate_ttr", NoCap, Whole(combined_df),
                      [op |-> "calculate_ttr",
                       arg |-> [text |-> text, sample_size |-> sample_size,
                                start_index |-> start_index],
                       status |-> "returned",
                       values |-> <<calculate_ttr(text, sample_size, start_index)>>,
                       years |-> <<>>, units |-> <<>>],
                      IF Len(Split(text)) < sample_size THEN 0 ELSE 1)

\* one call of ttr_analysis: every draw of calculate_ttr advances the generator
TtrAnalysis ==
    /\ CanCall
    /\ \E sample_size \in 1..MaxWindow, number_of_samples \in 1..MaxDraws :
           \E starts \in StartChoices(combined_df, GroupYears(combined_df), sample_size,
                                      number_of_samples) :
               CallWithDraws("ttr_analysis", NoCap,
                   ttr_analysis_collection(combined_df, NoCap),
                   [ttr_analysis(combined_df, sample_size, number_of_samples, starts)
                       EXCEPT !.arg = [sample_size |-> sample_size,
                                       number_of_samples |-> number_of_samples]],
                   Cardinality(SampleRange(number_of_samples))
                       * Cardinality(EnoughWords(combined_df, sample_size)))

\* the texts of the speeches: words of one letter or more, and whitespace
ContentTexts ==
    {Texts(cell, Str(<<"a">>), Str(<<"a">>)) :
        cell \in CellsLeft("content", {" ", "a"})}

NextTtr ==
    \/ LoadAnnotatedSpeech(YearValues \cup {NaN}, ContentTexts, {NoDoc})
    \/ EndLoading
    \/ CalculateTtr
    \/ TtrAnalysis

SpecTtr == Init /\ [][NextTtr]_vars

\* C19: calculate_ttr returns None when the text has fewer words than the
\* window size; otherwise the start offset is in [0, words - window], the
\* window of that many consecutive words lies inside the text, and the result
\* is the number of distinct words of the window over the window size, a value
\* in [0, 1].
C19_WindowInsideText ==
    result.op = "calculate_ttr" =>
        LET words == Split(result.arg.text)
            size == result.arg.sample_size
            start == result.arg.start_index
            window == {n \in DOMAIN words : start < n /\ n <= start + size}
        IN  IF Len(words) < size
            THEN result.values[1] = NoValue
            ELSE /\ 0 <= start /\ start <= Len(words) - size
                 /\ Cardinality(window) = size
                 /\ result.values[1].den = size
                 /\ result.values[1].num = Cardinality({words[n] : n \in window})
                 /\ 0 <= result.values[1].num
                 /\ result.values[1].num <= result.values[1].den

\* the window started after the first word of a text that has more words
\* than the window
C19_Witness ==
    /\ result.op = "calculate_ttr"
    /\ rng > 0
    /\ Len(combined_df) > 1
    /\ result.arg.start_index > 0
    /\ Len(Split(result.arg.text)) > result.arg.sample_size
    /\ result.values[1] = Ratio(1, 1)

\* C20: ttr_analysis emits nothing for a year whose speeches together have
\* fewer words than the window size, and for every other year exactly
\* number_of_samples pairs, one for each draw, none of them None.
C20_SamplesPerYear ==
    result.op = "ttr_analysis" =>
        LET size == result.arg.sample_size
            of(year) == {i \in DOMAIN result.years : result.years[i] = year}
        IN  /\ result.status = "returned"
            /\ Len(result.values) = Len(result.years)
            /\ \A i \in DOMAIN result.years : result.years[i] \in GroupYears(lastOp.used)
            /\ \A year \in GroupYears(lastOp.used) :
                 LET words == Split(speeches_as_text(lastOp.used, year))
                 IN  IF Len(words) < size
                     THEN of(year) = {}
                     ELSE /\ Cardinality(of(year)) = result.arg.number_of_samples
                          /\ Cardinality({result.units[i].draw : i \in of(year)})
                                = result.arg.number_of_samples
                          /\ \A i \in of(year) :
                               LET start == result.units[i].start_index
                                   window == {n \in DOMAIN words :
                                                 start < n /\ n <= start + size}
                               IN  /\ result.values[i] # NoValue
                                   /\ start <= Len(words) - size
                                   /\ result.values[i] =
                                         Ratio(Cardinality({words[n] : n \in window}), size)

\* a year with too few words was skipped, and another year got two pairs
\* from windows with different starts
C20_Witness ==
    /\ result.op = "ttr_analysis"
    /\ \E year \in GroupYears(lastOp.used) :
         Len(Split(speeches_as_text(lastOp.used, year))) < result.arg.sample_size
    /\ \E i, j \in DOMAIN result.units :
         /\ result.years[i] = result.years[j]
         /\ result.units[i].start_index # result.units[j].start_index

(***************************************************************************)
(* Claims about all extractors: the alignment of values and years, and     *)
(* the exceptions raised while one unit is processed.                      *)
(***************************************************************************)

\* the extractors whose units are speeches or sentences of speeches
SpeechExtractors ==
    {"root_dependencies", "root_dependencies_divided_by_sentence_word_count",
     "part_of_speech_analysis", "noun_compound_analysis", "compound_word_analysis"}

\* C11: every extractor returns two sequences of the same length in which
\* values[i] was computed from a unit whose year is years[i], also when units
\* are skipped and when noun_compound_analysis records its sentinel.
C11_ValuesAlignedWithYears ==
    result.op \in SpeechExtractors =>
        /\ result.status = "returned"
        /\ Len(result.values) = Len(result.years)
        /\ \A i \in DOMAIN result.units :
             result.years[i] = UnitRow(result.units[i]).year

\* noun_compound_analysis returned a pair with year 0 for a speech of 1980
\* next to a pair with the year of its speech
C11_SentinelYear ==
    /\ result.op = "noun_compound_analysis"
    /\ result.status = "returned"
    /\ Len(result.values) = Len(result.years)
    /\ \E i \in DOMAIN result.units :
         /\ result.years[i] = 0
         /\ UnitRow(result.units[i]).year = 1980
    /\ \E i \in DOMAIN result.units :
         result.years[i] = UnitRow(result.units[i]).year

\* C12: an exception raised while one unit is processed is caught locally:
\* root_dependencies and root_dependencies_divided_by_sentence_word_count
\* return, no pair comes from the unit that raised, and the units after it
\* are processed.
C12_UnitExceptionSkipsUnit ==
    result.op \in {"root_dependencies",
                   "root_dependencies_divided_by_sentence_word_count"} =>
        /\ result.status = "returned"
        /\ \A i \in DOMAIN result.units :
             ~IntRaises(UnitRow(result.units[i]).year)
        /\ \A u \in SentenceUnits(lastOp.used) :
             ~IntRaises(UnitRow(u).year) =>
                 \E i \in DOMAIN result.units : result.units[i] = u

\* root_dependencies ended by an exception on a collection in which a speech
\* without a year is followed by an annotated speech of 1980 with a sentence
C12_LaterUnitsLost ==
    /\ result.op = "root_dependencies"
    /\ result.status = "raised"
    /\ \E i, j \in DOMAIN lastOp.used :
         /\ i < j
         /\ lastOp.used[i].stanza_output # NoDoc
         /\ IntRaises(lastOp.used[i].year)
         /\ lastOp.used[j].stanza_output # NoDoc
         /\ lastOp.used[j].year = 1980
         /\ Len(lastOp.used[j].stanza_output.sentences) > 0

(***************************************************************************)
(* complexity_analysis.py: the length of the original words against the    *)
(* length of their lemmas.                                                 *)
(***************************************************************************)

\* the text as it is: no character removed
KeepSeparators(chars) == chars

\* lemm_text.replace("#", "")
StripSeparators(chars) == SelectSeq(chars, LAMBDA ch : ch # "#")

\* ratios of one speech, kept as their sum sum_num / sum_den and their number
NoRatios == [sum_num |-> 0, sum_den |-> 1, count |-> 0]

\* the loop over range(len(orig_words)) followed by the filter of the None
\* entries: a pair whose lemmatized word is empty adds nothing
RECURSIVE length_ratios(_, _, _, _)
length_ratios(ratios, orig_words, lemm_words, i) ==
    IF i > Len(orig_words) THEN ratios
    ELSE length_ratios(
             IF Len(lemm_words[i]) > 0
             THEN [sum_num |-> ratios.sum_num * Len(lemm_words[i])
                                  + Len(orig_words[i]) * ratios.sum_den,
                   sum_den |-> ratios.sum_den * Len(lemm_words[i]),
                   count |-> ratios.count + 1]
             ELSE ratios,
             orig_words, lemm_words, i + 1)

\* word_vs_lemmatized_word_ratio: None when the numbers of words differ or no
\* ratio is left, np.mean(ratios) otherwise
word_vs_lemmatized_word_ratio(orig_text, lemm_text) ==
    LET orig_words == Split(orig_text)
        lemm_words == Split(StripSeparators(lemm_text))
        ratios == length_ratios(NoRatios, orig_words, lemm_words, 1)
    IN  IF Len(orig_words) # Len(lemm_words) THEN NoValue
        ELSE IF ratios.count = 0 THEN NoValue
        ELSE Ratio(ratios.sum_num, ratios.sum_den * ratios.count)

\* word_vs_lemmatized_word_analysis: one speech
word_vs_lemmatized_speech(acc, row) ==
    IF ~row.clean_content.str \/ ~row.lemmatized_content.str THEN acc
    ELSE LET ratio == word_vs_lemmatized_word_ratio(row.clean_content.text,
                                                    row.lemmatized_content.text)
         IN  IF ratio # NoValue
             THEN AppendPair(acc, row.year, ratio, Unit(row, 0))
             ELSE acc

\* word_vs_lemmatized_word_analysis: the loop over combined_df.iterrows()
RECURSIVE word_vs_lemmatized_rows(_, _, _)
word_vs_lemmatized_rows(acc, rows, i) ==
    IF acc.exc \/ i > Len(rows) THEN acc
    ELSE word_vs_lemmatized_rows(word_vs_lemmatized_speech(acc, rows[i]), rows, i + 1)

word_vs_lemmatized_word_analysis(df, cap) ==
    Outcome("word_vs_lemmatized_word_analysis",
            word_vs_lemmatized_rows(
                Acc0, word_vs_lemmatized_word_analysis_collection(df, cap).rows, 1))

WordVsLemmatizedWordAnalysis ==
    /\ CanCall
    /\ \E cap \in MetricCaps :
           Call("word_vs_lemmatized_word_analysis", cap,
                word_vs_lemmatized_word_analysis_collection(combined_df, cap),
                word_vs_lemmatized_word_analysis(combined_df, cap))

\* re.sub(r'\s+', ' ', text) followed by strip(), and " ".join(lemmas): words
\* separated by single spaces, no space at either end
SingleSpaced(cell) ==
    /\ \A n \in DOMAIN cell.text :
         IsSpace(cell.text[n]) =>
             /\ n > 1 /\ n < Len(cell.text)
             /\ ~IsSpace(cell.text[n + 1])

\* the cleaned texts and their lemmatized texts: letters, single spaces and,
\* in the lemmatized text, the separator "#"
CleanAndLemmatizedTexts ==
    {Texts(clean, clean, lemm) :
        clean \in {c \in CellsLeft("clean_content", {" ", "a"}) : SingleSpaced(c)},
        lemm \in {c \in CellsLeft("lemmatized_content", {" ", "a", "#"}) :
                     SingleSpaced(c)}}

NextLemma ==
    \/ LoadAnnotatedSpeech({1980}, CleanAndLemmatizedTexts, {NoDoc})
    \/ EndLoading
    \/ WordVsLemmatizedWordAnalysis

SpecLemma == Init /\ [][NextLemma]_vars

(***************************************************************************)
(* Claims about the length ratio of original and lemmatized words.         *)
(***************************************************************************)

\* the characters of a text that are not "#"
RECURSIVE WithoutSeparators(_)
WithoutSeparators(chars) ==
    IF chars = <<>> THEN <<>>
    ELSE IF Head(chars) = "#" THEN WithoutSeparators(Tail(chars))
    ELSE <<Head(chars)>> \o WithoutSeparators(Tail(chars))

\* the original words of a row, and the lemmatized words that remain after
\* "#" is stripped
OriginalWords(row) == Split(row.clean_content.text)
RemainingLemmas(row) == Split(WithoutSeparators(row.lemmatized_content.text))

\* the product of the lengths of the words other than word i
RECURSIVE OtherLengths(_, _, _)
OtherLengths(words, i, n) ==
    IF n > Len(words) THEN 1
    ELSE (IF n = i THEN 1 ELSE Len(words[n])) * OtherLengths(words, i, n + 1)

\* the sum over the pairs of len(original) / len(lemmatized), as a numerator
\* over the product of the lengths of all lemmatized words
RECURSIVE SumOfRatios(_, _, _)
SumOfRatios(orig_words, lemm_words, i) ==
    IF i > Len(orig_words) THEN 0
    ELSE Len(orig_words[i]) * OtherLengths(lemm_words, i, 1)
            + SumOfRatios(orig_words, lemm_words, i + 1)

\* the value is the mean of the length ratios of the positional pairs of a row
IsMeanOfPairs(value, row) ==
    LET orig_words == OriginalWords(row)
        lemm_words == RemainingLemmas(row)
    IN  /\ value.den > 0
        /\ value.num * Len(orig_words) * OtherLengths(lemm_words, 0, 1)
              = value.den * SumOfRatios(orig_words, lemm_words, 1)

\* C21: word_vs_lemmatized_word_ratio returns None when the number of original
\* words differs from the number of lemmatized words remaining after "#" is
\* stripped, and when no pair could be computed; otherwise the mean over all
\* positional pairs of len(original) / len(lemmatized), which is 1 when every
\* pair has equal lengths; word_vs_lemmatized_word_analysis emits a pair for a
\* speech only when that result is not None.
C21_MeanLengthRatio ==
    /\ \A n \in DOMAIN combined_df :
         LET row == combined_df[n]
             ratio == word_vs_lemmatized_word_ratio(row.clean_content.text,
                                                    row.lemmatized_content.text)
         IN  (row.clean_content.str /\ row.lemmatized_content.str) =>
               IF \/ Len(OriginalWords(row)) # Len(RemainingLemmas(row))
                  \/ Len(OriginalWords(row)) = 0
               THEN ratio = NoValue
               ELSE /\ IsMeanOfPairs(ratio, row)
                    /\ (\A i \in DOMAIN OriginalWords(row) :
                           Len(OriginalWords(row)[i]) = Len(RemainingLemmas(row)[i]))
                          => ratio.num = ratio.den
    /\ result.op = "word_vs_lemmatized_word_analysis" =>
         \A i \in DOMAIN result.units :
            LET row == UnitRow(result.units[i])
            IN  /\ row.clean_content.str /\ row.lemmatized_content.str
                /\ result.values[i] # NoValue
                /\ IsMeanOfPairs(result.values[i], row)
                /\ result.years[i] = row.year

\* a speech whose lemmatized text holds a compound got a mean that is not 1,
\* and a speech whose numbers of words differ got no pair
C21_Witness ==
    /\ result.op = "word_vs_lemmatized_word_analysis"
    /\ result.status = "returned"
    /\ Len(lastOp.used) > Len(result.values)
    /\ \E n \in DOMAIN lastOp.used :
         /\ lastOp.used[n].clean_content.str /\ lastOp.used[n].lemmatized_content.str
         /\ Len(OriginalWords(lastOp.used[n])) # Len(RemainingLemmas(lastOp.used[n]))
    /\ \E i \in DOMAIN result.units :
         /\ HasSeparator(UnitRow(result.units[i]).lemmatized_content.text)
         /\ result.values[i].num # result.values[i].den

(***************************************************************************)
(* Claims about the words counted by count_root_dependencies.              *)
(***************************************************************************)

\* the sentences of the collection
SentencesOfCollection ==
    UNION {{SentencesIn(combined_df[i].stanza_output)[k] :
               k \in DOMAIN SentencesIn(combined_df[i].stanza_output)} :
           i \in DOMAIN combined_df}

\* the first word with head 0 of a sentence that has one
LiteralRoot(sentence) ==
    CHOOSE i \in DOMAIN sentence.words :
        /\ sentence.words[i].head = 0
        /\ \A j \in 1..(i - 1) : sentence.words[j].head # 0

\* C24, as stated: in count_root_dependencies a word with head == 0 that is
\* not itself the literal root (the first word with head 0) also counts
\* toward the root-dependency count, next to the words whose head is the root.
C24_OtherRootsCounted ==
    \A sentence \in SentencesOfCollection :
        LET words == sentence.words
            heads0 == {i \in DOMAIN words : words[i].head = 0}
        IN  heads0 # {} =>
              count_root_dependencies(sentence)[1] =
                  Cardinality({i \in DOMAIN words :
                                  \/ words[i].head = words[LiteralRoot(sentence)].id
                                  \/ i \in heads0 \ {LiteralRoot(sentence)}})

\* C24, amended: when no word has head 0 the root id stays 0 and the count is
\* 0; when a root is found the count is the number of words whose head is the
\* id of the first word with head 0, so that no word with head == 0 counts,
\* neither the literal root nor another one; root_dependencies emits that
\* count.
C24_OnlyDependentsOfLiteralRoot ==
    /\ \A sentence \in SentencesOfCollection :
          LET words == sentence.words
              heads0 == {i \in DOMAIN words : words[i].head = 0}
              count == count_root_dependencies(sentence)[1]
          IN  IF heads0 = {} THEN count = 0
              ELSE /\ count = Cardinality({i \in DOMAIN words \ heads0 :
                                  words[i].head = words[LiteralRoot(sentence)].id})
                   /\ count <= Len(words) - Cardinality(heads0)
    /\ (result.op = "root_dependencies" /\ result.status = "returned") =>
          \A i \in DOMAIN result.units :
              result.values[i] =
                  Ratio(Cardinality({n \in DOMAIN UnitSentence(result.units[i]).words :
                           LET words == UnitSentence(result.units[i]).words
                           IN  /\ words[n].head # 0
                               /\ \E r \in DOMAIN words :
                                     /\ words[r].head = 0
                                     /\ words[n].head = words[r].id
                                     /\ \A j \in 1..(r - 1) : words[j].head # 0}), 1)

\* root_dependencies emitted the count 0 for a sentence of several words that
\* all have head 0
C24_Witness ==
    /\ result.op = "root_dependencies"
    /\ result.status = "returned"
    /\ \E i \in DOMAIN result.units :
         LET words == UnitSentence(result.units[i]).words
         IN  /\ Len(words) > 1
             /\ \A n \in DOMAIN words : words[n].head = 0
             /\ result.values[i] = Ratio(0, 1)

(***************************************************************************)
(* feature_analysis.py: the length of the speeches and of their words.     *)
(* Both functions assign a new column to the collection they are given.    *)
(***************************************************************************)

\* values above the threshold are left out of the speech lengths
speech_length_threshold == 60000

\* combined_df[column] = cells: every row gets the cell of its position
WithColumn(df, column, cells) ==
    [i \in DOMAIN df |->
        [c \in DOMAIN df[i] \cup {column} |-> IF c = column THEN cells[i] ELSE df[i][c]]]

\* len(str(text_data)): the characters of the text, of "nan" for a missing one
speech_length(text) == IF text.str THEN Ratio(Len(text.text), 1) ELSE Ratio(3, 1)

\* the mean length of the words of a text, None without words
word_length(text) ==
    LET words == Split(text.text)
    IN  IF text.str /\ Len(words) > 0
        THEN Ratio(SumLen(words), Len(words))
        ELSE NoValue

\* analyze_feature_over_years: the rows with the feature and a year, at most
\* the threshold when one is given
RECURSIVE feature_rows(_, _, _, _, _)
feature_rows(acc, rows, feature, threshold, i) ==
    IF i > Len(rows) THEN acc
    ELSE feature_rows(
             IF \/ rows[i][feature] = NoValue
                \/ rows[i].year = NaN
                \/ /\ threshold # 0
                   /\ rows[i][feature].num > threshold * rows[i][feature].den
             THEN acc
             ELSE AppendRow(acc, rows[i].year, rows[i][feature], Unit(rows[i], 0)),
             rows, feature, threshold, i + 1)

analyze_feature_over_years(op, df, feature, sample_size, threshold) ==
    Outcome(op, feature_rows(Acc0, analyze_feature_over_years_collection(df, sample_size).rows,
                             feature, threshold, 1))

\* speech_length_analysis: the column is assigned to the caller's collection
speech_length_column(df) ==
    WithColumn(df, "speech_length", [i \in DOMAIN df |-> speech_length(df[i].clean_content)])

\* word_length_analysis: the column is assigned to the caller's collection
word_length_column(df) ==
    WithColumn(df, "word_length", [i \in DOMAIN df |-> word_length(df[i].clean_content)])

\* a call of a function of feature_analysis.py: the collection of the caller
\* is the one with the new column from here on
CallAssigningColumn(op, cap, df, r) ==
    /\ lastOp' = [op |-> op, cap |-> cap, input |-> combined_df,
                  used |-> analyze_feature_over_years_collection(df, cap).rows,
                  sampled |-> analyze_feature_over_years_collection(df, cap).sampled,
                  again |-> FALSE]
    /\ result' = r
    /\ combined_df' = df
    /\ UNCHANGED <<storeVars, writerVars, runVars, loaded, rng, samples, annotVars>>

SpeechLengthAnalysis ==
    /\ CanCall
    /\ \E cap \in MetricCaps :
           CallAssigningColumn("speech_length_analysis", cap,
               speech_length_column(combined_df),
               analyze_feature_over_years("speech_length_analysis",
                   speech_length_column(combined_df), "speech_length", cap,
                   speech_length_threshold))

WordLengthAnalysis ==
    /\ CanCall
    /\ \E cap \in MetricCaps :
           CallAssigningColumn("word_length_analysis", cap,
               word_length_column(combined_df),
               analyze_feature_over_years("word_length_analysis",
                   word_length_column(combined_df), "word_length", cap, 0))

\* sample_speeches called on the complete collection
SampleLoaded ==
    /\ CanCall
    /\ \E cap \in 1..MaxCap :
           Call("sample_speeches", cap, Sampled(combined_df, cap),
                [NoResult EXCEPT !.op = "sample_speeches", !.status = "returned"])

\* the cleaned texts of the speeches
CleanTexts ==
    {Texts(clean, clean, Str(<<"a">>)) :
        clean \in {c \in CellsLeft("clean_content", {" ", "a"}) : SingleSpaced(c)}}

NextFeature ==
    \/ LoadAnnotatedSpeech(YearValues \cup {NaN}, CleanTexts, {NoDoc})
    \/ EndLoading
    \/ SpeechLengthAnalysis
    \/ WordLengthAnalysis
    \/ SampleLoaded
    \/ CompoundWordAnalysis
    \/ WordVsLemmatizedWordAnalysis

SpecFeature == Init /\ [][NextFeature]_vars

(***************************************************************************)
(* Claims about the collection an operation was given.                     *)
(***************************************************************************)

\* C22: no sampling or metric operation changes the collection passed to it:
\* after the operation the caller's collection has the same rows and the same
\* columns with the same values as before it.
C22_CollectionUnchanged ==
    lastOp.op # "none" =>
        /\ Len(combined_df) = Len(lastOp.input)
        /\ \A i \in DOMAIN combined_df :
             /\ DOMAIN combined_df[i] = DOMAIN lastOp.input[i]
             /\ \A c \in DOMAIN lastOp.input[i] : combined_df[i][c] = lastOp.input[i][c]

\* the columns of a row of the collection
Columns(row) == DOMAIN row

\* word_length_analysis returned the mean word length of a speech, and the
\* collection of the caller has the column word_length with the old columns
\* as they were
C22_ColumnAdded ==
    /\ lastOp.op = "word_length_analysis"
    /\ result.status = "returned"
    /\ result.values # <<>>
    /\ \A i \in DOMAIN combined_df :
         /\ Columns(combined_df[i]) = Columns(lastOp.input[i]) \cup {"word_length"}
         /\ \A c \in Columns(lastOp.input[i]) : combined_df[i][c] = lastOp.input[i][c]

(***************************************************************************)
(* visualization_and_analysis.py: pearson_correlation.  scipy's pearsonr   *)
(* is external: it raises for fewer than two points, returns NaN for r and *)
(* p when one of its inputs is constant, and a p-value in [0, 1] otherwise.*)
(* A p-value is kept as a number of steps of 1 / PSteps.                   *)
(***************************************************************************)

PSteps == 3000

\* the points given to pearson_correlation: years and values of equal length
SeriesOf(n) == [years : [1..n -> YearValues], values : [1..n -> 0..1]]
Series == UNION {SeriesOf(n) : n \in 0..MaxRows}

IsConstant(seq) == \A i, j \in DOMAIN seq : seq[i] = seq[j]

\* pearsonr raises ValueError: fewer than two points
PearsonrRaises(years, values) == Len(years) < 2

\* the p-values pearsonr can return for the points
PValuesOf(years, values) ==
    IF IsConstant(years) \/ IsConstant(values) THEN {NaN} ELSE 0..PSteps

\* the comparisons of a float with a constant a / b: all False for NaN
AtLeast(p, a, b) == p # NaN /\ p * b >= a * PSteps
AtMost(p, a, b) == p # NaN /\ p * b <= a * PSteps
Above(p, a, b) == p # NaN /\ p * b > a * PSteps

\* f"{p:.3f}": p rounded to thousandths (no p of the grid lies halfway)
Thousandths(p) == (2000 * p + PSteps) \div (2 * PSteps)

\* the labels "p = 0.xxx", "p > 0.05" and "p < 0.001"
ValueLabel(p) == [kind |-> "p =", thousandths |-> Thousandths(p)]
AboveLabel == [kind |-> "p > 0.05", thousandths |-> 0]
BelowLabel == [kind |-> "p < 0.001", thousandths |-> 0]

\* if 0.05 >= p >= 0.001: ... elif p > 0.05: ... else: ...
approx_p_value(p) ==
    IF AtMost(p, 5, 100) /\ AtLeast(p, 1, 1000) THEN ValueLabel(p)
    ELSE IF Above(p, 5, 100) THEN AboveLabel
    ELSE BelowLabel

\* pearson_correlation(years, values): the exception of pearsonr leaves the
\* function, otherwise the label of the p-value is returned
PearsonCorrelation ==
    /\ result = NoResult
    /\ \E s \in Series :
         IF PearsonrRaises(s.years, s.values)
         THEN result' = [op |-> "pearson_correlation", arg |-> {}, status |-> "raised",
                         values |-> s.values, years |-> s.years, units |-> <<>>]
         ELSE \E p \in PValuesOf(s.years, s.values) :
                 result' = [op |-> "pearson_correlation",
                            arg |-> [p |-> p, label |-> approx_p_value(p)],
                            status |-> "returned",
                            values |-> s.values, years |-> s.years, units |-> <<>>]
    /\ UNCHANGED <<storeVars, writerVars, runVars, dfVars, sampleVars, annotVars>>

NextPearson == PearsonCorrelation

SpecPearson == Init /\ [][NextPearson]_vars

(***************************************************************************)
(* Claims about the significance label.                                    *)
(***************************************************************************)

\* the p-value is a number below a / b, or a number above it
NumberBelow(p, a, b) == p # NaN /\ p * b < a * PSteps
NumberAbove(p, a, b) == p # NaN /\ p * b > a * PSteps

\* C23: pearson_correlation maps every p-value to exactly one label:
\* "p < 0.001" when p is below 0.001, "p > 0.05" when p is above 0.05, and
\* otherwise the value of p formatted to 3 decimals.
C23_LabelOfEveryPValue ==
    (result.op = "pearson_correlation" /\ result.status = "returned") =>
        LET p == result.arg.p
            label == result.arg.label
        IN  IF NumberBelow(p, 1, 1000) THEN label.kind = "p < 0.001"
            ELSE IF NumberAbove(p, 5, 100) THEN label.kind = "p > 0.05"
            ELSE label.kind = "p ="

\* the p-value 0.001 of points that vary got the label "p = 0.001"
C23_BoundaryValue ==
    /\ result.op = "pearson_correlation"
    /\ result.status = "returned"
    /\ ~IsConstant(result.years)
    /\ result.arg.p # NaN
    /\ result.arg.p * 1000 = PSteps
    /\ result.arg.label = [kind |-> "p =", thousandths |-> 1]

(***************************************************************************)
(* Claims about a container that cannot be loaded.                         *)
(***************************************************************************)

\* C25: only a missing container makes save_information start from an empty
\* mapping: when the container is present but cannot be loaded, the call
\* writes nothing, the store keeps exactly its previous contents, the call
\* ends without an exception and the new pair is not stored; a call on a
\* loadable container starts from the entries it holds.
C25_LoadFailureWritesNothing ==
    last # NoCall =>
        /\ prev.state = "corrupt" =>
              /\ last.status = "load_failed"
              /\ file = prev
              /\ last.feature \notin Keys(file.entries)
              /\ YearKey(last.feature) \notin Keys(file.entries)
        /\ last.status = "load_failed" => prev.state = "corrupt"
        /\ (last.status = "stored" /\ prev.state # "absent") =>
              /\ prev.state = "ok"
              /\ Keys(prev.entries) \subseteq Keys(file.entries)

\* a call found a container that an interrupted persist had left unloadable,
\* after an earlier call had stored a pair, and ended as a failed load
C25_Witness ==
    /\ prev = Corrupt
    /\ file = Corrupt
    /\ last.status = "load_failed"
    /\ latest # <<>>
    /\ calls > 2

====
